---- MODULE Spec2Model ----
(***************************************************************************)
(* solders: the Keypair class (src/src/keypair.rs) and the registration of *)
(* the transaction module (src/src/transaction.rs).                        *)
(*                                                                         *)
(* The Keypair class wraps solana_sdk's Keypair, which wraps an            *)
(* ed25519-dalek Keypair.  The width of the key material is scaled down:   *)
(* a secret key and a compressed public key are ONE byte each (32 in the   *)
(* library), so the serialised keypair has LENGTH = 2 bytes (64).  The     *)
(* curve is the twisted Edwards curve -x^2 + y^2 = 1 + d x^2 y^2 over the  *)
(* prime field of 2^7 - 15 elements, with d = -121665/121666 and a base    *)
(* point of y = 4/5, the 7-bit analogue of Ed25519 (2^255 - 19).  A        *)
(* compressed point is y in the low 7 bits and the sign of x in the top    *)
(* bit, as in the library.  Hash functions (SHA-512, PBKDF2, Python's      *)
(* hash) are small deterministic mixing functions.                         *)
(***************************************************************************)
EXTENDS Integers, Sequences, FiniteSets, TLC

VARIABLES kp, seeded, call, txmod

vars == <<kp, seeded, call, txmod>>

----------------------------------------------------------------------------
(* Bounds of the inputs the model draws.                                   *)

\* seeds (secret keys) handed to the constructors are 0..MaxSeed
MaxSeed == 2
\* public-key bytes handed to from_bytes are 0..MaxPub
MaxPub == 3
\* messages handed to sign_message are 0..MaxMsg
MaxMsg == 1
\* seed phrases and passphrases are 0..MaxPhrase
MaxPhrase == 1
\* transaction versions are 0..MaxVersion
MaxVersion == 1

\* Keypair::LENGTH (64 in the source: one byte per half here)
LENGTH == 2

SECRET_KEY_LENGTH == LENGTH \div 2

Byte == 0..255

----------------------------------------------------------------------------
(* Field and curve arithmetic of the Ed25519 library, 7-bit field.         *)

P == 2^7 - 15

RECURSIVE PowMod(_, _)
PowMod(a, e) ==
    IF e = 0 THEN 1
    ELSE IF e % 2 = 0 THEN (PowMod(a, e \div 2) * PowMod(a, e \div 2)) % P
    ELSE (a * PowMod(a, e - 1)) % P

\* the inverse of a in the field (0 for 0, as the library's invert gives)
Inv(a) == PowMod(a % P, P - 2)

\* the curve constant d = -121665/121666
D == ((P - (121665 % P)) * Inv(121666)) % P

Identity == <<0, 1>>

\* a, b are points <<x, y>>; the complete twisted Edwards addition (a = -1)
PointAdd(a, b) ==
    LET xx == (a[1] * b[1]) % P
        yy == (a[2] * b[2]) % P
        t  == (((D * xx) % P) * yy) % P
    IN  << (((a[1] * b[2] + b[1] * a[2]) % P) * Inv(1 + t)) % P,
           (((yy + xx) % P) * Inv(1 + P - t)) % P >>

RECURSIVE ScalarMul(_, _)
ScalarMul(k, pt) ==
    IF k = 0 THEN Identity
    ELSE IF k % 2 = 0
         THEN LET h == ScalarMul(k \div 2, pt) IN PointAdd(h, h)
         ELSE PointAdd(pt, ScalarMul(k - 1, pt))

\* CompressedEdwardsY::decompress: y is the low 7 bits reduced mod p, the
\* top bit is the sign of x; NoPoint when (y^2 - 1)/(d y^2 + 1) is no square
NoPoint == <<-1, -1>>

DecompressCalc(b) ==
    LET y  == (b % 128) % P
        u  == (y * y + P - 1) % P
        v  == (D * ((y * y) % P) + 1) % P
        x2 == (u * Inv(v)) % P
        rs == {x \in 0..(P - 1) : (x * x) % P = x2}
    IN  IF v = 0 \/ rs = {} THEN NoPoint
        ELSE LET x == CHOOSE r \in rs : \A q \in rs : r <= q
                 neg == (P - x) % P
             IN  IF x % 2 = b \div 128 THEN <<x, y>> ELSE <<neg, y>>

DecompressTable == [b \in Byte |-> DecompressCalc(b)]

Decompress(b) == DecompressTable[b]

\* EdwardsPoint::compress
Compress(pt) == pt[2] + 128 * (pt[1] % 2)

\* the base point: y = 4/5, x even
Basepoint == Decompress((4 * Inv(5)) % P)

\* the order of the base point
BasepointOrder == 4 * 27

\* the multiples of the base point (the library's precomputed table)
BasepointTable == [k \in 0..(BasepointOrder - 1) |-> ScalarMul(k, Basepoint)]

BasepointMul(k) == BasepointTable[k % BasepointOrder]

\* the library's hash (SHA-512 there): a mixing function onto one byte,
\* with multipliers under which no two secrets the model reaches derive
\* the same public key (no collision of SHA-512 is known either)
RECURSIVE Mix(_, _)
Mix(h, seq) ==
    IF seq = <<>> THEN h
    ELSE Mix((h * 29 + Head(seq) * 51 + 13) % 256, Tail(seq))

\* ExpandedSecretKey::from: the lower half of H(secret), clamped
\* (the cofactor's low bits cleared, the top bit cleared, the next bit set:
\* bits &= 248, &= 127, |= 64 in the library, whose cofactor is 8; the
\* cofactor of this curve is 4), is the secret scalar
ClampedScalar(secret) ==
    LET h == Mix(1, <<secret>>)
    IN  ((((h - (h % 4)) % 128) % 64) + 64)

\* the upper half of H(secret): the nonce prefix of signing
NoncePrefix(secret) == Mix(2, <<secret>>)

PublicFromSecretCalc(secret) ==
    Compress(BasepointMul(ClampedScalar(secret)))

PublicTable == [s \in Byte |-> PublicFromSecretCalc(s)]

\* PublicKey::from(&SecretKey): the public key derived from a secret key
PublicFromSecret(secret) == PublicTable[secret]

----------------------------------------------------------------------------
(* solana_sdk / ed25519-dalek: the KeypairOriginal behind Keypair.0.       *)

\* "no keypair": what a failed construction leaves in the result
NoKp == [secret |-> -1, public |-> -1]

OkKp(k) == [res |-> "Ok", kp |-> k]

ErrKp(e) == [res |-> e, kp |-> NoKp]

\* from_bytes that also compares the public half with the key derived
\* from the secret half
KeypairOriginal_from_bytes_checked(bytes) ==
    IF Len(bytes) # LENGTH THEN ErrKp("Err")
    ELSE IF Decompress(bytes[LENGTH]) = NoPoint THEN ErrKp("Err")
    ELSE IF bytes[LENGTH] # PublicFromSecret(bytes[1]) THEN ErrKp("Err")
    ELSE OkKp([secret |-> bytes[1], public |-> bytes[LENGTH]])

\* KeypairOriginal::from_bytes: the length is checked, the secret half is
\* taken as it is, the public half must decompress to a curve point; the
\* two halves are NOT checked against each other (keypair.rs:127-130 loads
\* seed 0x00.. with public key 0x01.. and reads that public key back)
KeypairOriginal_from_bytes(bytes) ==
    IF Len(bytes) # LENGTH THEN ErrKp("Err")
    ELSE IF Decompress(bytes[LENGTH]) = NoPoint THEN ErrKp("Err")
    ELSE OkKp([secret |-> bytes[1], public |-> bytes[LENGTH]])

\* KeypairOriginal::to_bytes: secret bytes, then the compressed public key
\* as it was given
KeypairOriginal_to_bytes(k) == <<k.secret, k.public>>

\* keypair_from_seed that keeps the expanded scalar in place of the seed
keypair_from_seed_expanded(seed) ==
    IF Len(seed) < SECRET_KEY_LENGTH THEN ErrKp("Err")
    ELSE OkKp([secret |-> ClampedScalar(seed[1]),
               public |-> PublicFromSecret(seed[1])])

\* keypair_from_seed: the first SECRET_KEY_LENGTH bytes are the secret key,
\* the public key is derived from it
keypair_from_seed(seed) ==
    IF Len(seed) < SECRET_KEY_LENGTH THEN ErrKp("Err")
    ELSE OkKp([secret |-> seed[1], public |-> PublicFromSecret(seed[1])])

\* generate_seed_from_seed_phrase_and_passphrase (PBKDF2 in the library):
\* LENGTH bytes of seed material from any phrase and passphrase
generate_seed(phrase, passphrase) ==
    <<Mix(3, <<phrase, passphrase>>), Mix(4, <<phrase, passphrase>>)>>

keypair_from_seed_phrase_and_passphrase(phrase, passphrase) ==
    keypair_from_seed(generate_seed(phrase, passphrase))

\* KeypairOriginal::new: a random secret key and its public key
KeypairOriginal_new(entropy) ==
    [secret |-> entropy, public |-> PublicFromSecret(entropy)]

\* Signer::pubkey of a keypair: the stored public half
KeypairOriginal_pubkey(k) == <<k.public>>

\* Signer::sign_message: the deterministic Ed25519 signature R || S
KeypairOriginal_sign_message(k, m) ==
    LET a == ClampedScalar(k.secret)
        r == Mix(5, <<NoncePrefix(k.secret), m>>) % BasepointOrder
        R == Compress(BasepointMul(r))
        h == Mix(6, <<R, k.public, m>>) % BasepointOrder
    IN  <<R, (r + h * a) % BasepointOrder>>

\* impl<T: Signer> PartialEq<T> for KeypairOriginal: the public keys
KeypairOriginal_eq(a, b) == KeypairOriginal_pubkey(a) = KeypairOriginal_pubkey(b)

\* a Presigner equality that also asks the stored signature to be one the
\* keypair produces
PresignerOriginal_eq_signed(ps, k) ==
    /\ ps.pubkey = KeypairOriginal_pubkey(k)
    /\ \E m \in 0..MaxMsg : ps.signature = KeypairOriginal_sign_message(k, m)

\* impl<T: Signer> PartialEq<T> for PresignerOriginal, ps = (pubkey,
\* signature): the public keys; the stored signature is not read
PresignerOriginal_eq(ps, k) == ps.pubkey = KeypairOriginal_pubkey(k)

----------------------------------------------------------------------------
(* bs58: a string is a sequence of digit values, 0 for the character '1';  *)
(* the value Base58Radix stands for a character outside the alphabet.      *)

Base58Radix == 58

RECURSIVE ToNat(_, _)
ToNat(seq, radix) ==
    IF seq = <<>> THEN 0
    ELSE ToNat(SubSeq(seq, 1, Len(seq) - 1), radix) * radix + seq[Len(seq)]

RECURSIVE ToDigits(_, _)
ToDigits(n, radix) ==
    IF n = 0 THEN <<>>
    ELSE Append(ToDigits(n \div radix, radix), n % radix)

RECURSIVE LeadingZeros(_)
LeadingZeros(seq) ==
    IF seq = <<>> \/ Head(seq) # 0 THEN 0 ELSE 1 + LeadingZeros(Tail(seq))

\* an encoder that forgets the leading zero bytes
bs58_encode_no_leading(bytes) == ToDigits(ToNat(bytes, 256), Base58Radix)

\* bs58::encode: one '1' per leading zero byte, then the digits of the rest
bs58_encode(bytes) ==
    [i \in 1..LeadingZeros(bytes) |-> 0] \o ToDigits(ToNat(bytes, 256), Base58Radix)

\* bs58::decode(..).into_vec(): an error on a character outside the
\* alphabet, else one zero byte per leading '1' and the bytes of the rest
bs58_decode(str) ==
    IF \E i \in 1..Len(str) : str[i] >= Base58Radix
    THEN [res |-> "Err", bytes |-> <<>>]
    ELSE [res |-> "Ok",
          bytes |-> [i \in 1..LeadingZeros(str) |-> 0]
                    \o ToDigits(ToNat(str, Base58Radix), 256)]

\* KeypairOriginal::from_base58_string:
\* Self::from_bytes(&bs58::decode(s).into_vec().unwrap()).unwrap()
KeypairOriginal_from_base58_string(str) ==
    LET d == bs58_decode(str)
    IN  IF d.res # "Ok" THEN ErrKp("Panic")
        ELSE LET r == KeypairOriginal_from_bytes(d.bytes)
             IN  IF r.res # "Ok" THEN ErrKp("Panic") ELSE r

KeypairOriginal_to_base58_string(k) == bs58_encode(KeypairOriginal_to_bytes(k))

----------------------------------------------------------------------------
(* src/src/keypair.rs: the methods of Keypair.                             *)

\* handle_py_value_err: Ok as it is, an Err raised as a Python ValueError
handle_py_value_err(r) == IF r.res = "Ok" THEN r ELSE ErrKp("ValueError")

new(entropy) == OkKp(KeypairOriginal_new(entropy))

from_bytes(raw_bytes) == handle_py_value_err(KeypairOriginal_from_bytes(raw_bytes))

\* to_bytes_array with the halves in the wrong order
to_bytes_array_swapped(k) == <<k.public, k.secret>>

to_bytes_array(k) == KeypairOriginal_to_bytes(k)

from_base58_string(s) == KeypairOriginal_from_base58_string(s)

secret(k) == <<k.secret>>

str(k) == KeypairOriginal_to_base58_string(k)

py_pubkey(k) == KeypairOriginal_pubkey(k)

py_sign_message(k, m) == KeypairOriginal_sign_message(k, m)

from_seed(seed) == handle_py_value_err(keypair_from_seed(seed))

from_seed_phrase_and_passphrase(phrase, passphrase) ==
    handle_py_value_err(keypair_from_seed_phrase_and_passphrase(phrase, passphrase))

\* hash((class_name, bytes(obj))): the class name's hash mixed with the
\* bytes, 16 bits wide
RECURSIVE PyHash(_, _)
PyHash(h, bytes) ==
    IF bytes = <<>> THEN h
    ELSE PyHash((h * 33 + Head(bytes) + 1) % 65536, Tail(bytes))

hash(k) == PyHash(5381, to_bytes_array(k))

\* the match of __richcmp__: other is a Signer, a KeypairWrapper or a
\* PresignerWrapper
other_eq(self, other) ==
    IF other.variant = "KeypairWrapper"
    THEN KeypairOriginal_eq(other.kp, self)
    ELSE PresignerOriginal_eq(other.ps, self)

\* RichcmpEqOnlyPrecalculated::richcmp: == and != from the precalculated
\* equality, an ordering raises TypeError
richcmp(eq_val, op) ==
    IF op = "Eq" THEN [res |-> "Ok", val |-> eq_val]
    ELSE IF op = "Ne" THEN [res |-> "Ok", val |-> ~eq_val]
    ELSE [res |-> "TypeError", val |-> FALSE]

richcmp_method(self, other, op) == richcmp(other_eq(self, other), op)

\* a clone that derives the copy again from the secret key
clone_rederive(k) ==
    LET r == from_seed(secret(k))
    IN  IF r.res = "Ok" THEN r ELSE ErrKp("Panic")

\* impl Clone: Self::from_bytes(self.to_bytes_array()).unwrap()
clone(k) ==
    LET r == from_bytes(to_bytes_array(k))
    IN  IF r.res = "Ok" THEN r ELSE ErrKp("Panic")

py_is_interactive(k) == FALSE

----------------------------------------------------------------------------
(* src/src/transaction.rs and the transaction version it names.            *)

\* typing.Union[...]: the member types, duplicates dropped
RECURSIVE typing_Union(_)
typing_Union(types) ==
    IF types = <<>> THEN <<>>
    ELSE LET rest == typing_Union(SubSeq(types, 1, Len(types) - 1))
             t == types[Len(types)]
         IN  IF \E i \in 1..Len(rest) : rest[i] = t THEN rest ELSE Append(rest, t)

NoModule == [created |-> FALSE, classes |-> {}, TransactionVersion |-> <<>>]

\* a module whose TransactionVersion is typing.Optional[int]
create_transaction_mod_optional ==
    [created |-> TRUE,
     classes |-> {"Transaction", "VersionedTransaction", "Legacy",
                  "SanitizeError", "TransactionError"},
     TransactionVersion |-> typing_Union(<<"int", "NoneType">>)]

\* create_transaction_mod: the classes and exceptions added to the module,
\* and TransactionVersion = typing.Union[Legacy, int]
create_transaction_mod ==
    [created |-> TRUE,
     classes |-> {"Transaction", "VersionedTransaction", "Legacy",
                  "SanitizeError", "TransactionError"},
     TransactionVersion |-> typing_Union(<<"Legacy", "int">>)]

\* the transaction envelopes: Legacy, or Versioned(n)
Envelopes ==
    {[variant |-> "Legacy", version |-> 0]}
        \cup {[variant |-> "Versioned", version |-> n] : n \in 0..MaxVersion}

\* the version an envelope exposes: a Python object, its class and its
\* integer value (the Legacy marker is an enum member of value 0)
version(tx) ==
    IF tx.variant = "Legacy" THEN [cls |-> "Legacy", val |-> 0]
    ELSE [cls |-> "int", val |-> tx.version]

NoVersion == [cls |-> "NoneType", val |-> 0]

----------------------------------------------------------------------------
(* The state: a Python session holding two Keypair objects.                *)
(*   kp      the Keypair held under each of the two names, NoKp for none   *)
(*   seeded  for each name, the seed from_seed was given when it returned  *)
(*           the Keypair held there, -1 for any other origin               *)
(*   call    the last call: its operation, arguments and result            *)
(*   txmod   the transaction module, once the package is imported          *)

Slots == {1, 2}

Seeds == 0..MaxSeed

\* the 64-byte buffers handed to from_bytes
RawInputs == {<<s, p>> : s \in Seeds, p \in 0..MaxPub}

\* a signature no key produces: its S is not below the group order
BadSignature == <<255, 255>>

NoPresigner == [pubkey |-> <<>>, signature |-> <<>>]

Blank ==
    [op |-> "none", res |-> "none", slot |-> 0, src |-> 0, raw |-> <<>>,
     s |-> <<>>, kp |-> NoKp, other |-> NoKp, ps |-> NoPresigner,
     cmpop |-> "", eq |-> FALSE, out |-> <<>>, h |-> -1, ver |-> NoVersion]

Held == {i \in Slots : kp[i] # NoKp}

\* a constructor's result r bound to the name i: a failure binds nothing
Bind(i, r, seed) ==
    /\ kp' = IF r.res = "Ok" THEN [kp EXCEPT ![i] = r.kp] ELSE kp
    /\ seeded' = IF r.res = "Ok" THEN [seeded EXCEPT ![i] = seed] ELSE seeded
    /\ UNCHANGED txmod

\* no call is in progress: the last result has been taken
Idle == call.op = "none"

Init ==
    /\ kp = [i \in Slots |-> NoKp]
    /\ seeded = [i \in Slots |-> -1]
    /\ call = Blank
    /\ txmod = NoModule

\* importing the package runs create_transaction_mod
CreateTransactionMod ==
    /\ Idle /\ ~txmod.created
    /\ txmod' = create_transaction_mod
    /\ call' = [Blank EXCEPT !.op = "create_transaction_mod", !.res = "Ok"]
    /\ UNCHANGED <<kp, seeded>>

New(i, entropy) ==
    /\ Idle /\ txmod.created
    /\ LET r == new(entropy)
       IN  /\ Bind(i, r, -1)
           /\ call' = [Blank EXCEPT !.op = "new", !.res = r.res, !.slot = i,
                                    !.kp = r.kp]

FromBytes(i, raw) ==
    /\ Idle /\ txmod.created
    /\ LET r == from_bytes(raw)
       IN  /\ Bind(i, r, -1)
           /\ call' = [Blank EXCEPT !.op = "from_bytes", !.res = r.res,
                                    !.slot = i, !.raw = raw, !.kp = r.kp]

ToBytesArray(i) ==
    /\ Idle /\ txmod.created /\ i \in Held
    /\ call' = [Blank EXCEPT !.op = "to_bytes_array", !.res = "Ok", !.slot = i,
                             !.kp = kp[i], !.out = to_bytes_array(kp[i])]
    /\ UNCHANGED <<kp, seeded, txmod>>

FromBase58String(i, s) ==
    /\ Idle /\ txmod.created
    /\ LET r == from_base58_string(s)
       IN  /\ Bind(i, r, -1)
           /\ call' = [Blank EXCEPT !.op = "from_base58_string", !.res = r.res,
                                    !.slot = i, !.s = s, !.kp = r.kp]

Secret(i) ==
    /\ Idle /\ txmod.created /\ i \in Held
    /\ call' = [Blank EXCEPT !.op = "secret", !.res = "Ok", !.slot = i,
                             !.kp = kp[i], !.out = secret(kp[i])]
    /\ UNCHANGED <<kp, seeded, txmod>>

Str(i) ==
    /\ Idle /\ txmod.created /\ i \in Held
    /\ call' = [Blank EXCEPT !.op = "str", !.res = "Ok", !.slot = i,
                             !.kp = kp[i], !.s = str(kp[i])]
    /\ UNCHANGED <<kp, seeded, txmod>>

PyPubkey(i) ==
    /\ Idle /\ txmod.created /\ i \in Held
    /\ call' = [Blank EXCEPT !.op = "pubkey", !.res = "Ok", !.slot = i,
                             !.kp = kp[i], !.out = py_pubkey(kp[i])]
    /\ UNCHANGED <<kp, seeded, txmod>>

PySignMessage(i, m) ==
    /\ Idle /\ txmod.created /\ i \in Held
    /\ call' = [Blank EXCEPT !.op = "sign_message", !.res = "Ok", !.slot = i,
                             !.kp = kp[i], !.raw = <<m>>,
                             !.out = py_sign_message(kp[i], m)]
    /\ UNCHANGED <<kp, seeded, txmod>>

FromSeed(i, seed) ==
    /\ Idle /\ txmod.created
    /\ LET r == from_seed(<<seed>>)
       IN  /\ Bind(i, r, seed)
           /\ call' = [Blank EXCEPT !.op = "from_seed", !.res = r.res,
                                    !.slot = i, !.raw = <<seed>>, !.kp = r.kp]

FromSeedPhraseAndPassphrase(i, phrase, passphrase) ==
    /\ Idle /\ txmod.created
    /\ LET r == from_seed_phrase_and_passphrase(phrase, passphrase)
       IN  /\ Bind(i, r, -1)
           /\ call' = [Blank EXCEPT !.op = "from_seed_phrase_and_passphrase",
                                    !.res = r.res, !.slot = i,
                                    !.raw = <<phrase, passphrase>>, !.kp = r.kp]

Hash(i) ==
    /\ Idle /\ txmod.created /\ i \in Held
    /\ call' = [Blank EXCEPT !.op = "hash", !.res = "Ok", !.slot = i,
                             !.kp = kp[i], !.h = hash(kp[i])]
    /\ UNCHANGED <<kp, seeded, txmod>>

\* self == other, self != other, self < other with other a Keypair
RichcmpKeypair(i, j, op) ==
    /\ Idle /\ txmod.created /\ i \in Held /\ j \in Held
    /\ LET other == [variant |-> "KeypairWrapper", kp |-> kp[j], ps |-> NoPresigner]
           r == richcmp_method(kp[i], other, op)
       IN  call' = [Blank EXCEPT !.op = "richcmp_keypair", !.res = r.res,
                                 !.slot = i, !.src = j, !.kp = kp[i],
                                 !.other = kp[j], !.cmpop = op, !.eq = r.val]
    /\ UNCHANGED <<kp, seeded, txmod>>

\* the same with other a Presigner built from a public key and a signature
RichcmpPresigner(i, ps, op) ==
    /\ Idle /\ txmod.created /\ i \in Held
    /\ LET other == [variant |-> "PresignerWrapper", kp |-> NoKp, ps |-> ps]
           r == richcmp_method(kp[i], other, op)
       IN  call' = [Blank EXCEPT !.op = "richcmp_presigner", !.res = r.res,
                                 !.slot = i, !.kp = kp[i], !.ps = ps,
                                 !.cmpop = op, !.eq = r.val]
    /\ UNCHANGED <<kp, seeded, txmod>>

PyIsInteractive(i) ==
    /\ Idle /\ txmod.created /\ i \in Held
    /\ call' = [Blank EXCEPT !.op = "is_interactive", !.res = "Ok", !.slot = i,
                             !.kp = kp[i], !.eq = py_is_interactive(kp[i])]
    /\ UNCHANGED <<kp, seeded, txmod>>

\* kp[j] = kp[i].clone()
Clone(i, j) ==
    /\ Idle /\ txmod.created /\ i \in Held
    /\ LET r == clone(kp[i])
       IN  /\ Bind(j, r, -1)
           /\ call' = [Blank EXCEPT !.op = "clone", !.res = r.res, !.slot = j,
                                    !.src = i, !.other = kp[i], !.kp = r.kp]

\* the version of a decoded transaction
Version(tx) ==
    /\ Idle /\ txmod.created
    /\ call' = [Blank EXCEPT !.op = "version", !.res = "Ok", !.ver = version(tx)]
    /\ UNCHANGED <<kp, seeded, txmod>>

\* the caller takes the result of the last call
Return ==
    /\ ~Idle
    /\ call' = Blank
    /\ UNCHANGED <<kp, seeded, txmod>>

\* the strings handed to from_base58_string: the text of a held Keypair,
\* of a buffer, a string with a character outside the alphabet, strings
\* that decode to fewer or more than LENGTH bytes
StrInputs ==
    {str(kp[j]) : j \in Held}
        \cup {bs58_encode(b) : b \in RawInputs}
        \cup {<<Base58Radix>>, <<0, Base58Radix, 1>>, <<>>, <<0>>, <<0, 0, 0>>,
              <<1, 1, 1, 1>>}

\* the Presigners the Keypair held under i is compared with: the public
\* key of a held Keypair or another one, and a signature the Keypair
\* produces or one that nobody produces
PresignerInputs(i) ==
    {[pubkey |-> pk, signature |-> sig] :
        pk \in {py_pubkey(kp[j]) : j \in Held} \cup {<<0>>},
        sig \in {py_sign_message(kp[i], m) : m \in 0..MaxMsg} \cup {BadSignature}}

Next ==
    \/ CreateTransactionMod
    \/ \E i \in Slots, e \in Seeds : New(i, e)
    \/ \E i \in Slots, raw \in RawInputs \cup {to_bytes_array(kp[j]) : j \in Held} :
          FromBytes(i, raw)
    \/ \E i \in Slots : ToBytesArray(i)
    \/ \E i \in Slots, s \in StrInputs : FromBase58String(i, s)
    \/ \E i \in Slots : Secret(i)
    \/ \E i \in Slots : Str(i)
    \/ \E i \in Slots : PyPubkey(i)
    \/ \E i \in Slots, m \in 0..MaxMsg : PySignMessage(i, m)
    \/ \E i \in Slots, seed \in Seeds : FromSeed(i, seed)
    \/ \E i \in Slots, ph \in 0..MaxPhrase, pw \in 0..MaxPhrase :
          FromSeedPhraseAndPassphrase(i, ph, pw)
    \/ \E i \in Slots : Hash(i)
    \/ \E i \in Slots, j \in Slots, op \in {"Eq", "Ne", "Lt"} : RichcmpKeypair(i, j, op)
    \/ \E i \in Held, op \in {"Eq", "Ne", "Lt"} :
          \E ps \in PresignerInputs(i) : RichcmpPresigner(i, ps, op)
    \/ \E i \in Slots : PyIsInteractive(i)
    \/ \E i \in Slots, j \in Slots : Clone(i, j)
    \/ \E tx \in Envelopes : Version(tx)
    \/ Return

Spec == Init /\ [][Next]_vars

----------------------------------------------------------------------------
(* The claims.                                                             *)

Constructors ==
    {"from_bytes", "from_base58_string", "from_seed",
     "from_seed_phrase_and_passphrase"}

\* self == other as __richcmp__ decides it, other a Keypair
KeypairsEqual(a, b) ==
    LET r == richcmp_method(a, [variant |-> "KeypairWrapper", kp |-> b,
                                ps |-> NoPresigner], "Eq")
    IN  r.res = "Ok" /\ r.val

\* b encodes a point of the curve: some x satisfies the curve equation with
\* the y of b
EncodesCurvePoint(b) ==
    LET y == (b % 128) % P
    IN  \E x \in 0..(P - 1) :
           (y * y + (P - 1) * ((x * x) % P)) % P
               = (1 + ((D * ((x * x) % P)) % P) * ((y * y) % P)) % P

\* C1 as stated: from_bytes on a buffer whose trailing half is not the
\* public key derived from its leading half fails with the construction
\* error and returns no Keypair.
C1_RejectsUnderivedPublicKey ==
    (call.op = "from_bytes" /\ call.raw[LENGTH] # PublicFromSecret(call.raw[1]))
        => (call.res = "ValueError" /\ call.kp = NoKp)

\* C1 amended: from_bytes fails, with ValueError and no Keypair, exactly
\* when the trailing half does not encode a curve point; the halves are not
\* compared with each other, and a returned Keypair holds the leading half
\* as its secret and the trailing half as its public key.
C1_RejectsOnlyNonPoints ==
    call.op = "from_bytes" =>
        /\ call.res \in {"Ok", "ValueError"}
        /\ call.res = "ValueError" <=> ~EncodesCurvePoint(call.raw[LENGTH])
        /\ call.res = "ValueError" => call.kp = NoKp
        /\ call.res = "Ok" =>
              /\ secret(call.kp) = SubSeq(call.raw, 1, SECRET_KEY_LENGTH)
              /\ py_pubkey(call.kp) = SubSeq(call.raw, SECRET_KEY_LENGTH + 1, LENGTH)
              /\ kp[call.slot] = call.kp

\* from_bytes has accepted seed 0x00.. with public key 0x01.., which is not
\* the key derived from that seed
C1_Witness ==
    /\ call.op = "from_bytes" /\ call.res = "Ok"
    /\ call.raw = <<0, 1>>
    /\ PublicFromSecret(0) # 1

\* C2 as stated: k1 == k2 exactly when the two 64-byte representations
\* are the same.
C2_EqualIffSameBytes ==
    (call.op = "richcmp_keypair" /\ call.cmpop = "Eq") =>
        /\ call.res = "Ok"
        /\ call.eq <=> (to_bytes_array(call.kp) = to_bytes_array(call.other))

\* C3 as stated: two Keypairs that compare equal have the same hash.
C3_EqualImpliesSameHash ==
    (call.op = "richcmp_keypair" /\ call.cmpop = "Eq" /\ call.eq)
        => hash(call.kp) = hash(call.other)

\* the stored signature is one the keypair itself produces
SignatureOf(k, sig) == \E m \in 0..MaxMsg : sig = py_sign_message(k, m)

\* C4 as stated: a Keypair equals a Presigner exactly when the Presigner's
\* public key is the Keypair's and its stored signature is one the Keypair
\* would produce.
C4_PresignerEqualByKeyAndSignature ==
    (call.op = "richcmp_presigner" /\ call.cmpop = "Eq") =>
        (call.eq <=> (/\ call.ps.pubkey = py_pubkey(call.kp)
                      /\ SignatureOf(call.kp, call.ps.signature)))

\* C4 amended: a Keypair equals a Presigner exactly when the Presigner's
\* public key is the Keypair's; the stored signature plays no part.
C4_PresignerEqualByKey ==
    call.op = "richcmp_presigner" =>
        /\ call.cmpop = "Eq" =>
              (call.res = "Ok" /\ (call.eq <=> call.ps.pubkey = <<call.kp.public>>))
        /\ call.cmpop = "Ne" =>
              (call.res = "Ok" /\ (call.eq <=> call.ps.pubkey # <<call.kp.public>>))

\* a Presigner with the Keypair's public key and a signature the Keypair
\* did not produce has compared equal
C4_Witness ==
    /\ call.op = "richcmp_presigner" /\ call.cmpop = "Eq" /\ call.eq
    /\ call.ps.signature = BadSignature
    /\ ~SignatureOf(call.kp, call.ps.signature)

\* C5 as stated: a constructor that does not return a Keypair reports the
\* construction error, never an abort.
C5_FailuresAreErrorValues ==
    (call.op \in Constructors /\ call.res # "Ok")
        => (call.res = "ValueError" /\ call.kp = NoKp)

\* C6: from_bytes(b).to_bytes_array() is b for every accepted b, every b
\* whose trailing half is the derived public key is accepted, and
\* from_bytes(bytes(k)) succeeds and equals k for every Keypair k.
C6_BytesRoundTrip ==
    call.op = "from_bytes" =>
        /\ call.res = "Ok" => to_bytes_array(call.kp) = call.raw
        /\ call.raw[LENGTH] = PublicFromSecret(call.raw[1]) => call.res = "Ok"
        /\ \A j \in Held :
              call.raw = to_bytes_array(kp[j]) =>
                  /\ call.res = "Ok"
                  /\ call.kp = kp[j]
                  /\ KeypairsEqual(call.kp, kp[j])

\* from_bytes was given the bytes of a Keypair held under the other name,
\* a properly derived one
C6_Witness ==
    /\ call.op = "from_bytes" /\ call.res = "Ok"
    /\ call.raw[LENGTH] = PublicFromSecret(call.raw[1])
    /\ call.raw[1] # call.raw[LENGTH]
    /\ \E j \in Held : j # call.slot /\ call.raw = to_bytes_array(kp[j])

\* C7: from_base58_string(str(k)) is a Keypair equal to k with the same
\* bytes; for every string s it accepts, str(from_base58_string(s)) is s
\* and from_base58_string(s) is from_bytes of the decoded bytes.
C7_Base58Inverse ==
    call.op = "from_base58_string" =>
        /\ \A j \in Held :
              call.s = str(kp[j]) =>
                  /\ call.res = "Ok"
                  /\ to_bytes_array(call.kp) = to_bytes_array(kp[j])
                  /\ KeypairsEqual(call.kp, kp[j])
        /\ call.res = "Ok" =>
              /\ str(call.kp) = call.s
              /\ bs58_decode(call.s).res = "Ok"
              /\ from_bytes(bs58_decode(call.s).bytes) = OkKp(call.kp)

\* from_base58_string was given the text of the Keypair held under the
\* other name, a text that starts with '1' (a leading zero byte)
C7_Witness ==
    /\ call.op = "from_base58_string" /\ call.res = "Ok"
    /\ call.s # <<>> /\ Head(call.s) = 0
    /\ \E j \in Held : j # call.slot /\ call.s = str(kp[j])

\* C8: from_seed(s) succeeds with secret() = s; two Keypairs from_seed
\* returned for one seed are identical and equal; and from_bytes of s
\* followed by the public key of from_seed(s) succeeds, equals from_seed(s)
\* and has secret() = s.
C8_SeedAgreesWithRaw ==
    /\ call.op = "from_seed" =>
          (call.res = "Ok" /\ secret(call.kp) = call.raw)
    /\ \A i \in Held, j \in Held :
          (seeded[i] # -1 /\ seeded[i] = seeded[j]) =>
              /\ to_bytes_array(kp[i]) = to_bytes_array(kp[j])
              /\ KeypairsEqual(kp[i], kp[j])
    /\ \A j \in Held :
          (/\ call.op = "from_bytes"
           /\ seeded[j] # -1
           /\ call.raw = <<seeded[j]>> \o py_pubkey(kp[j])) =>
              /\ call.res = "Ok"
              /\ KeypairsEqual(call.kp, kp[j])
              /\ to_bytes_array(call.kp) = to_bytes_array(kp[j])
              /\ secret(call.kp) = <<seeded[j]>>
              /\ secret(kp[j]) = <<seeded[j]>>

\* from_bytes was given a seed followed by the public key of the Keypair
\* from_seed made of that seed, held under the other name
C8_Witness ==
    /\ call.op = "from_bytes" /\ call.res = "Ok"
    /\ \E j \in Held :
          /\ j # call.slot
          /\ seeded[j] # -1
          /\ call.raw = <<seeded[j]>> \o py_pubkey(kp[j])

UnionMembers(u) == {u[i] : i \in 1..Len(u)}

C10_CloneNeverFails ==
    call.op = "clone" =>
        /\ call.res = "Ok"
        /\ to_bytes_array(call.kp) = to_bytes_array(call.other)
        /\ KeypairsEqual(call.kp, call.other)
        /\ kp[call.src] = call.other
        /\ kp[call.slot] = call.kp

\* a Keypair whose public key is not the one derived from its secret was
\* cloned under the other name
C10_Witness ==
    /\ call.op = "clone" /\ call.res = "Ok" /\ call.slot # call.src
    /\ call.other.public # PublicFromSecret(call.other.secret)
====
